---- MODULE Spec2Model ----
(***************************************************************************)
(* Investigate_a_Dataset.py: the firearm background-check / Census         *)
(* notebook, as a state machine.  The notebook is a linear sequence of     *)
(* cells; every cell that changes a table or computes a result is one      *)
(* action, pc names the next cell to run ("In[140]" .. "In[192]"), and an  *)
(* exception raised by a cell ends the run (pc = "aborted", err = the      *)
(* exception's class).                                                     *)
(*                                                                         *)
(* A DataFrame is [cols, index, data]: the column labels, the row labels   *)
(* and the rows (each a sequence of cells, one per column).  A label is a  *)
(* cell.  A Series is [index, data].                                       *)
(*                                                                         *)
(* Numbers: a numeral or a float is held as the fraction n / d in lowest   *)
(* terms (d > 0), so that the divisions of the notebook are exact; float   *)
(* rounding is not modelled.                                               *)
(***************************************************************************)
EXTENDS Integers, Sequences, FiniteSets, TLC

VARIABLES
    pc,                 \* the next notebook cell
    err,                \* "none", or the class of the exception that ended the run
    input,              \* which gun_data.csv / census_data.csv are on disk
    gun,                \* the DataFrame gun
    census,             \* the DataFrame census
    bg_checks_mean,     \* In[174]
    heights,            \* In[175], In[177]: label -> estimate
    state_checks,       \* In[179]
    merged,             \* In[180]
    state_checks_mean,  \* In[181]
    percent_poverty,    \* In[181]
    years_sum,          \* In[184]
    checks_99,          \* In[185]
    checks_16,          \* In[185]
    diff,               \* In[186], In[187]
    top_five,           \* In[188], In[189]
    time_years          \* In[192]

vars == <<pc, err, input, gun, census, bg_checks_mean, heights, state_checks,
          merged, state_checks_mean, percent_poverty, years_sum, checks_99,
          checks_16, diff, top_five, time_years>>

results == <<bg_checks_mean, heights, state_checks, merged, state_checks_mean,
             percent_poverty, years_sum, checks_99, checks_16, diff, top_five,
             time_years>>

---------------------------------------------------------------------------
(* Bounds of the model                                                     *)

\* rows of gun_data.csv per state and year (state-months)
MonthsPerYear == 2
\* exact copies of the first row appended to gun_data.csv
MaxDup == 1
\* blank (all-NaN) lines at the end of census_data.csv
MaxBlank == 2

---------------------------------------------------------------------------
(* Cells                                                                   *)

RECURSIVE GCD(_, _)
GCD(a, b) == IF b = 0 THEN a ELSE GCD(b, a % b)
Abs(a) == IF a < 0 THEN -a ELSE a

\* a string, as its comma-separated parts
Str(p) == [t |-> "str", s |-> p, n |-> 0, d |-> 1, pct |-> FALSE, sep |-> FALSE]
Str1(a) == Str(<<a>>)
\* a number n / d, in lowest terms
Num(type, n, d) ==
    LET g == GCD(Abs(n), d)
    IN  [t |-> type, s |-> <<>>, n |-> n \div (IF g = 0 THEN 1 ELSE g),
         d |-> d \div (IF g = 0 THEN 1 ELSE g), pct |-> FALSE, sep |-> FALSE]
\* a string that is a numeral, with a trailing '%' (pct) or thousands separators (sep)
NumStr(n, d, p, c) == [Num("numstr", n, d) EXCEPT !.pct = p, !.sep = c]
\* a string "YYYY-MM"
YM(y, m) == Num("ym", y * 100 + m, 1)
Flt(n, d) == Num("float", n, d)
IntC(v) == Num("int", v, 1)
NaN == Num("nan", 0, 1)

IsStr(c) == c.t \in {"str", "numstr", "ym"}
IsNum(c) == c.t \in {"float", "int"}
\* '%' in str(x), 'Z' in str(x)
HasPercent(c) == c.t = "numstr" /\ c.pct
HasZ(c) == c.t = "str" /\ \E i \in 1..Len(c.s) : c.s[i] = "Z"

---------------------------------------------------------------------------
(* Sequences                                                               *)

Range(s) == {s[i] : i \in 1..Len(s)}
Idx(s) == 1..Len(s)

\* the positions of 1..n that satisfy keep, ascending
Positions(n, keep(_)) == SelectSeq([i \in 1..n |-> i], keep)

Take(s, ps) == [k \in 1..Len(ps) |-> s[ps[k]]]

\* the sum of s[lo..hi], by halves
RECURSIVE SumRange(_, _, _)
SumRange(s, lo, hi) ==
    IF lo > hi THEN 0
    ELSE IF lo = hi THEN s[lo]
    ELSE LET mid == (lo + hi) \div 2
         IN  SumRange(s, lo, mid) + SumRange(s, mid + 1, hi)
SumSeq(s) == SumRange(s, 1, Len(s))

\* the first position of x in s, 0 when absent (list.index raises then)
FirstPos(s, x) ==
    IF \E i \in Idx(s) : s[i] = x
    THEN CHOOSE i \in Idx(s) : s[i] = x /\ \A j \in 1..(i - 1) : s[j] # x
    ELSE 0

InsertAt(s, p, x) == SubSeq(s, 1, p - 1) \o <<x>> \o SubSeq(s, p, Len(s))
RemoveAt(s, p) == SubSeq(s, 1, p - 1) \o SubSeq(s, p + 1, Len(s))

---------------------------------------------------------------------------
(* DataFrames                                                              *)

Frame(c, i, d) == [cols |-> c, index |-> i, data |-> d]
EmptyFrame == Frame(<<>>, <<>>, <<>>)
Series(i, d) == [index |-> i, data |-> d]
EmptySeries == Series(<<>>, <<>>)

NRows(df) == Len(df.data)
NCols(df) == Len(df.cols)
RangeIndex(n) == [i \in 1..n |-> IntC(i - 1)]

HasCol(df, name) == \E i \in Idx(df.cols) : df.cols[i] = name
ColPos(df, name) == FirstPos(df.cols, name)
\* df[name] as the sequence of its cells
Col(df, name) == LET p == ColPos(df, name) IN [r \in 1..NRows(df) |-> df.data[r][p]]

\* df.iloc[:, ps] for a list of positions ps (1-based here)
SelectCols(df, ps) ==
    Frame(Take(df.cols, ps), df.index, [r \in 1..NRows(df) |-> Take(df.data[r], ps)])

\* df.iloc[rs, :] for a list of row positions
SelectRows(df, rs) == Frame(df.cols, Take(df.index, rs), Take(df.data, rs))

\* df.drop(labels, axis=1): every column whose label is one of labels goes
DropColumns(df, labels) ==
    SelectCols(df, Positions(NCols(df), LAMBDA i : df.cols[i] \notin labels))

\* df.drop(labels): every row whose index label is one of labels goes
DropRows(df, labels) ==
    SelectRows(df, Positions(NRows(df), LAMBDA r : df.index[r] \notin labels))

\* df[name] = cells: the column is replaced in place, or appended when new
SetCol(df, name, cells) ==
    IF HasCol(df, name)
    THEN Frame(df.cols, df.index,
               [r \in 1..NRows(df) |->
                   [df.data[r] EXCEPT ![ColPos(df, name)] = cells[r]]])
    ELSE Frame(Append(df.cols, name), df.index,
               [r \in 1..NRows(df) |-> Append(df.data[r], cells[r])])

\* DataFrame.duplicated(): row r repeats an earlier row (the index is not compared)
Duplicated(df, r) == \E q \in 1..(r - 1) : df.data[q] = df.data[r]

\* DataFrame.drop_duplicates(): the first of each group of equal rows stays
DropDuplicates(df) ==
    SelectRows(df, Positions(NRows(df), LAMBDA r : ~Duplicated(df, r)))

\* DataFrame.T
Transpose(df) ==
    Frame(df.index, df.cols,
          [c \in 1..NCols(df) |-> [r \in 1..NRows(df) |-> df.data[r][c]]])

---------------------------------------------------------------------------
(* The two files on disk                                                   *)

\* the values of the state column of gun_data.csv, in str order (the order
\* groupby sorts its keys in)
AllNames ==
    << "Alabama", "Alaska", "Arizona", "Arkansas", "California", "Colorado",
       "Connecticut", "Delaware", "District of Columbia", "Florida", "Georgia",
       "Guam", "Hawaii", "Idaho", "Illinois", "Indiana", "Iowa", "Kansas",
       "Kentucky", "Louisiana", "Maine", "Mariana Islands", "Maryland",
       "Massachusetts", "Michigan", "Minnesota", "Mississippi", "Missouri",
       "Montana", "Nebraska", "Nevada", "New Hampshire", "New Jersey",
       "New Mexico", "New York", "North Carolina", "North Dakota", "Ohio",
       "Oklahoma", "Oregon", "Pennsylvania", "Puerto Rico", "Rhode Island",
       "South Carolina", "South Dakota", "Tennessee", "Texas", "Utah",
       "Vermont", "Virgin Islands", "Virginia", "Washington", "West Virginia",
       "Wisconsin", "Wyoming" >>

\* str comparison of two state names
NameRank(a) == CHOOSE i \in Idx(AllNames) : AllNames[i] = a
NameLess(a, b) == NameRank(a) < NameRank(b)

\* the list of In[148]
Territories ==
    {"Guam", "District of Columbia", "Mariana Islands", "Puerto Rico", "Virgin Islands"}

\* the 50 states: the columns of census_data.csv after Fact and Fact Note
USStates ==
    << "Alabama", "Alaska", "Arizona", "Arkansas", "California", "Colorado",
       "Connecticut", "Delaware", "Florida", "Georgia", "Hawaii", "Idaho",
       "Illinois", "Indiana", "Iowa", "Kansas", "Kentucky", "Louisiana", "Maine",
       "Maryland", "Massachusetts", "Michigan", "Minnesota", "Mississippi",
       "Missouri", "Montana", "Nebraska", "Nevada", "New Hampshire", "New Jersey",
       "New Mexico", "New York", "North Carolina", "North Dakota", "Ohio",
       "Oklahoma", "Oregon", "Pennsylvania", "Rhode Island", "South Carolina",
       "South Dakota", "Tennessee", "Texas", "Utah", "Vermont", "Virginia",
       "Washington", "West Virginia", "Wisconsin", "Wyoming" >>

\* the columns of gun_data.csv: month, state, 24 transaction types, totals
TransactionTypes == 24
GunHeader ==
    <<Str1("month"), Str1("state")>>
    \o [k \in 1..TransactionTypes |-> [Str1("transaction_type") EXCEPT !.n = k]]
    \o <<Str1("totals")>>

\* the two reference years of In[185]
EarlyYear == 1999
LateYear == 2016
BaseTotals == 20 * 1000

\* totals of one state-month of the unperturbed file: the growth of every
\* state (twice its rank, per month) and the mean of every state (BaseTotals
\* plus its offset) are different, and the mean over the 50 states is BaseTotals
Offset(name) ==
    IF name \notin Range(USStates) THEN 0
    ELSE 2 * (CHOOSE i \in Idx(USStates) : USStates[i] = name) - (Len(USStates) + 1)
NominalTotals(name, year) ==
    IF year = EarlyYear
    THEN BaseTotals + Offset(name) - NameRank(name)
    ELSE BaseTotals + Offset(name) + NameRank(name)

\* what may differ from the unperturbed gun_data.csv:
\*   tweak   the totals of one state: month 1 is (early, late), the other months rest
\*   absent  a state with no row at all
\*   dup     copies of the first row appended
\*   partial a state with rows in the partial years 1998 and 2017 as well
\*   drift   a column added before, or missing from, the transaction types
\* (one difference at a time)
NoTweak == [state |-> "", early |-> 0, late |-> 0, rest |-> 0]
TweakStates == {"Alaska", "Kentucky"}
TweakTotals ==
    { [early |-> 0, late |-> 3500000, rest |-> 0],
      [early |-> BaseTotals - MonthsPerYear * NameRank("Wyoming"),
       late |-> BaseTotals + MonthsPerYear * NameRank("Wyoming"),
       rest |-> BaseTotals],
      [early |-> BaseTotals - MonthsPerYear * NameRank("Virginia"),
       late |-> BaseTotals + MonthsPerYear * NameRank("Virginia"),
       rest |-> BaseTotals],
      [early |-> BaseTotals, late |-> BaseTotals + 75 * MonthsPerYear,
       rest |-> BaseTotals] }
GunTweaks ==
    {NoTweak} \cup
    {[state |-> a, early |-> v.early, late |-> v.late, rest |-> v.rest] :
        a \in TweakStates, v \in TweakTotals}

NominalGun ==
    [tweak |-> NoTweak, absent |-> "", dup |-> 0, partial |-> "", drift |-> "none"]
Differences(x, nominal) == Cardinality({k \in DOMAIN x : x[k] # nominal[k]})
GunInputs ==
    {g \in [tweak : GunTweaks, absent : {"", "Alaska", "Wyoming"}, dup : 0..MaxDup,
            partial : {"", "Alabama", "Wyoming"}, drift : {"none", "added", "missing"}] :
        Differences(g, NominalGun) <= 1}

GunTotals(g, name, year, month) ==
    IF g.tweak.state = name
    THEN (IF month > 1 THEN g.tweak.rest
          ELSE IF year = EarlyYear THEN g.tweak.early ELSE g.tweak.late)
    ELSE NominalTotals(name, year)

GunRow(name, year, month, totals) ==
    <<YM(year, month), Str1(name)>> \o [k \in 1..TransactionTypes |-> IntC(0)]
    \o <<IntC(totals)>>

\* pd.read_csv('gun_data.csv')
GunCsv(g) ==
    LET names == SelectSeq(AllNames, LAMBDA a : a # g.absent)
        years == <<EarlyYear, LateYear>>
        M == MonthsPerYear
        base == [i \in 1..(Len(names) * 2 * M) |->
                    LET a == names[((i - 1) \div (2 * M)) + 1]
                        y == years[(((i - 1) \div M) % 2) + 1]
                        m == ((i - 1) % M) + 1
                    IN  GunRow(a, y, m, GunTotals(g, a, y, m))]
        more == IF g.partial = "" THEN <<>>
                ELSE <<GunRow(g.partial, EarlyYear - 1, 12, BaseTotals),
                       GunRow(g.partial, LateYear + 1, 1, BaseTotals)>>
        rows == base \o more \o [k \in 1..g.dup |-> base[1]]
        wide == Frame(GunHeader, RangeIndex(Len(rows)), rows)
    IN  CASE g.drift = "none" -> wide
          [] g.drift = "added" ->
                Frame(InsertAt(GunHeader, 3, Str1("new_column")), wide.index,
                      [r \in Idx(rows) |-> InsertAt(rows[r], 3, IntC(0))])
          [] g.drift = "missing" ->
                Frame(RemoveAt(GunHeader, 3), wide.index,
                      [r \in Idx(rows) |-> RemoveAt(rows[r], 3)])


\* the facts (rows) of census_data.csv by position: the ones the notebook
\* selects, and others
TrailingFacts == 2
NFacts == 50 + TrailingFacts
Dated(a) == Str(<<a, " percent", " July 1", " 2016", "  (V2016)">>)
FactName(f) ==
    CASE f = 0 -> Str(<<"Population estimates", " July 1", " 2016", "  (V2016)">>)
      [] f = 12 -> Dated("White alone")
      [] f = 13 -> Dated("Black or African American alone")
      [] f = 14 -> Dated("American Indian and Alaska Native alone")
      [] f = 15 -> Dated("Asian alone")
      [] f = 16 -> Dated("Native Hawaiian and Other Pacific Islander alone")
      [] f = 17 -> Dated("Two or More Races")
      [] f = 18 -> Dated("Hispanic or Latino")
      [] f = 19 -> Str(<<"White alone", " not Hispanic or Latino", " percent",
                         " July 1", " 2016", "  (V2016)">>)
      [] f = 34 -> Str(<<"High school graduate or higher",
                         " percent of persons age 25 years+", " 2011-2015">>)
      [] f = 35 -> Str(<<"Bachelor's degree or higher",
                         " percent of persons age 25 years+", " 2011-2015">>)
      [] f = 49 -> Str(<<"Persons in poverty", " percent">>)
      [] OTHER -> [Str(<<"Other fact", " 2016">>) EXCEPT !.n = f]

FractionFacts == {12, 13, 14, 15, 16, 17, 18, 19, 34, 35, 49}

\* the rows of the transposed table whose proportions the file gives as
\* percentages ("12.5%"); the other rows give decimals ("0.125")
PercentEncoded(r) == r \in (0..29) \cup (42..49)

\* the proportion of fact f in the state at row r, in percent
NominalPercent(f, r) ==
    CASE f = 12 -> 60
      [] f = 19 -> 40
      [] f = 13 -> 50
      [] f = 49 -> 10 + (r % 5)
      [] OTHER -> 10

Percentage(p) == NumStr(p, 1, TRUE, FALSE)
Decimal(p) == NumStr(p, 100, FALSE, FALSE)
Thousands(k) == NumStr(k, 1, FALSE, TRUE)

NominalCell(f, r) ==
    IF f \in FractionFacts
    THEN (IF PercentEncoded(r) THEN Percentage(NominalPercent(f, r))
          ELSE Decimal(NominalPercent(f, r)))
    ELSE IF f = 0 THEN Thousands((r + 1) * 1000)
    ELSE NumStr(f, 1, FALSE, FALSE)

\* what may differ from the unperturbed census_data.csv:
\*   cell    one cell of a selected fact holds another string (or nothing)
\*   order   the state columns are in str order, or two of them are swapped
\*   drift   a fact added before, or missing from before, the selected facts;
\*           or the last state column missing
\*   blank   all-NaN lines at the end of the file
\* (one difference at a time)
NoCell == [row |-> -1, fact |-> -1, value |-> NaN]
OddCells ==
    {Str1("Z"), Str1("D"), Percentage(20), Decimal(20), NaN}
CensusCells ==
    {NoCell} \cup
    [row : {0, 29, 30, 41, 42, 49}, fact : {16, 49}, value : OddCells]

NominalCensus == [cell |-> NoCell, order |-> "sorted", drift |-> "none", blank |-> 0]
CensusInputs ==
    {c \in [cell : CensusCells, order : {"sorted", "swapped"},
            drift : {"none", "added", "missing", "nostate"}, blank : 0..MaxBlank] :
        Differences(c, NominalCensus) <= 1}

CensusStates(c) ==
    LET n == Len(USStates)
        all == IF c.order = "sorted" THEN USStates
               ELSE [i \in 1..n |-> IF i = 2 THEN USStates[n]
                                    ELSE IF i = n THEN USStates[2] ELSE USStates[i]]
    IN  IF c.drift = "nostate" THEN SubSeq(all, 1, n - 1) ELSE all

\* pd.read_csv('census_data.csv')
CensusCsv(c) ==
    LET states == CensusStates(c)
        fact(f) == <<FactName(f), NaN>> \o
                   [k \in Idx(states) |->
                       IF c.cell.fact = f /\ c.cell.row = k - 1 THEN c.cell.value
                       ELSE NominalCell(f, k - 1)]
        facts == [i \in 1..NFacts |-> fact(i - 1)]
        drifted == CASE c.drift = "added" -> InsertAt(facts, 6, fact(NFacts))
                     [] c.drift = "missing" -> RemoveAt(facts, 6)
                     [] OTHER -> facts
        rows == drifted \o [k \in 1..c.blank |-> [j \in 1..(Len(states) + 2) |-> NaN]]
    IN  Frame(<<Str1("Fact"), Str1("Fact Note")>> \o [k \in Idx(states) |-> Str1(states[k])],
              RangeIndex(Len(rows)), rows)

Inputs ==
    [g : GunInputs, c : {NominalCensus}] \cup [g : {NominalGun}, c : CensusInputs]

---------------------------------------------------------------------------
(* The run                                                                 *)

Init ==
    /\ input \in Inputs
    /\ pc = "In[140]"
    /\ err = "none"
    /\ gun = GunCsv(input.g)
    /\ census = CensusCsv(input.c)
    /\ bg_checks_mean = 0
    /\ heights = <<>>
    /\ state_checks = EmptyFrame
    /\ merged = EmptyFrame
    /\ state_checks_mean = EmptySeries
    /\ percent_poverty = EmptySeries
    /\ years_sum = EmptyFrame
    /\ checks_99 = EmptyFrame
    /\ checks_16 = EmptyFrame
    /\ diff = EmptyFrame
    /\ top_five = EmptyFrame
    /\ time_years = EmptyFrame

\* an exception ends the run
Raise(e) == pc' = "aborted" /\ err' = e /\ UNCHANGED <<input, gun, census, results>>

\* In[140]: census.drop_duplicates(inplace=True)
In140 ==
    /\ pc = "In[140]"
    /\ census' = DropDuplicates(census)
    /\ pc' = "In[142]"
    /\ UNCHANGED <<err, input, gun, results>>

\* In[142]: gun.drop(gun.iloc[:, 2:26], inplace=True, axis=1): iterating the
\* frame gun.iloc[:, 2:26] gives its column labels, and those columns go
In142 ==
    /\ pc = "In[142]"
    /\ LET last == IF NCols(gun) < 26 THEN NCols(gun) ELSE 26
       IN  gun' = DropColumns(gun, {gun.cols[i] : i \in 3..last})
    /\ pc' = "In[143]"
    /\ UNCHANGED <<err, input, census, results>>

\* DatetimeIndex(...).year and .month of a "YYYY-MM" string
YearOf(c) == IntC(c.n \div 100)
MonthOf(c) == IntC(c.n % 100)

\* In[143]: gun['year'], gun['month_no'] from gun['month']
In143 ==
    /\ pc = "In[143]"
    /\ IF ~HasCol(gun, Str1("month")) THEN Raise("KeyError")
       ELSE /\ LET month == Col(gun, Str1("month"))
                   withYear == SetCol(gun, Str1("year"),
                                      [r \in Idx(month) |-> YearOf(month[r])])
               IN  gun' = SetCol(withYear, Str1("month_no"),
                                 [r \in Idx(month) |-> MonthOf(month[r])])
            /\ pc' = "In[144]"
            /\ UNCHANGED <<err, input, census, results>>

\* cols.pop(cols.index(x)) for each x of names in turn, then df[cols + names]
MoveLast(df, names) ==
    LET rest == Positions(NCols(df), LAMBDA i : df.cols[i] \notin Range(names))
        last == [k \in Idx(names) |-> ColPos(df, names[k])]
    IN  SelectCols(df, rest \o last)

\* In[144]: year, state, totals become the last columns
In144 ==
    /\ pc = "In[144]"
    /\ LET names == <<Str1("year"), Str1("state"), Str1("totals")>>
       IN  IF \E k \in Idx(names) : ~HasCol(gun, names[k]) THEN Raise("ValueError")
           ELSE /\ gun' = MoveLast(gun, names)
                /\ pc' = "In[145]"
                /\ UNCHANGED <<err, input, census, results>>

\* In[145]: gun = gun.drop(['month'], axis=1)
In145 ==
    /\ pc = "In[145]"
    /\ IF ~HasCol(gun, Str1("month")) THEN Raise("KeyError")
       ELSE /\ gun' = DropColumns(gun, {Str1("month")})
            /\ pc' = "In[148]"
            /\ UNCHANGED <<err, input, census, results>>

\* gun.drop(gun[gun.state.isin([...])].index) with the list widened by one name
DropTerritoriesAndVirginia(df) ==
    LET state == Col(df, Str1("state"))
    IN  DropRows(df, {df.index[r] : r \in
            {q \in 1..NRows(df) : state[q].s[1] \in Territories \cup {"Virginia"}}})

\* gun.drop(gun[gun.state.isin([...])].index)
DropTerritories(df) ==
    LET state == Col(df, Str1("state"))
    IN  DropRows(df, {df.index[r] : r \in
            {q \in 1..NRows(df) : state[q].s[1] \in Territories}})

\* In[148]: the rows of the territories go
In148 ==
    /\ pc = "In[148]"
    /\ gun' = DropTerritories(gun)
    /\ pc' = "In[149]"
    /\ UNCHANGED <<err, input, census, results>>

\* In[149]: census = census.T
In149 ==
    /\ pc = "In[149]"
    /\ census' = Transpose(census)
    /\ pc' = "In[150]"
    /\ UNCHANGED <<err, input, gun, results>>

\* In[150]: census.columns = census.iloc[0]
In150 ==
    /\ pc = "In[150]"
    /\ IF NRows(census) = 0 THEN Raise("IndexError")
       ELSE /\ census' = [census EXCEPT !.cols = census.data[1]]
            /\ pc' = "In[151]"
            /\ UNCHANGED <<err, input, gun, results>>

\* In[151]: census = census.drop(census.index[0:2])
In151 ==
    /\ pc = "In[151]"
    /\ census' = DropRows(census,
                          {census.index[r] : r \in 1..NRows(census) \cap 1..2})
    /\ pc' = "In[152]"
    /\ UNCHANGED <<err, input, gun, results>>

\* df.reset_index(drop=False): the index becomes the first column, 'index'
ResetIndex(df, name) ==
    Frame(<<name>> \o df.cols, RangeIndex(NRows(df)),
          [r \in 1..NRows(df) |-> <<df.index[r]>> \o df.data[r]])

\* In[152]: census.reset_index(drop=False, inplace=True)
\* (In[153], rename_axis(None, axis=1), changes only the name of the column axis)
In152 ==
    /\ pc = "In[152]"
    /\ census' = ResetIndex(census, Str1("index"))
    /\ pc' = "In[154]"
    /\ UNCHANGED <<err, input, gun, results>>

\* In[154]: census = census.rename(columns={'index': 'State'})
In154 ==
    /\ pc = "In[154]"
    /\ census' = [census EXCEPT !.cols =
                    [i \in Idx(census.cols) |->
                        IF census.cols[i] = Str1("index") THEN Str1("State")
                        ELSE census.cols[i]]]
    /\ pc' = "In[156]"
    /\ UNCHANGED <<err, input, gun, results>>

\* np.r_[0, 1, 13:21, 35:37, 50], as 1-based positions
SelectedColumns == <<1, 2>> \o [k \in 1..8 |-> 13 + k] \o <<36, 37, 51>>

\* In[156]: census = census.iloc[:, np.r_[0,1, 13:21, 35:37, 50]]
In156 ==
    /\ pc = "In[156]"
    /\ IF \E k \in Idx(SelectedColumns) : SelectedColumns[k] > NCols(census)
       THEN Raise("IndexError")
       ELSE /\ census' = SelectCols(census, SelectedColumns)
            /\ pc' = "In[157]"
            /\ UNCHANGED <<err, input, gun, results>>

\* label.split(',')[0]
BeforeComma(c) == IF c.t = "str" THEN Str1(c.s[1]) ELSE c

\* In[157]: census.columns = census.columns.str.split(',').str[0]
In157 ==
    /\ pc = "In[157]"
    /\ census' = [census EXCEPT !.cols =
                    [i \in Idx(census.cols) |-> BeforeComma(census.cols[i])]]
    /\ pc' = "In[158]"
    /\ UNCHANGED <<err, input, gun, results>>

\* In[158]: census.columns.values[[2, 9]] = ['White alone', 'White alone non hispanic']
In158 ==
    /\ pc = "In[158]"
    /\ IF NCols(census) < 10 THEN Raise("IndexError")
       ELSE /\ census' = [census EXCEPT !.cols[3] = Str1("White alone"),
                                        !.cols[10] = Str1("White alone non hispanic")]
            /\ pc' = "In[159]"
            /\ UNCHANGED <<err, input, gun, results>>

\* a.strip().lower().replace(' ', '_'), on the labels the files hold
SnakeCase(a) ==
    CASE a = "State" -> "state"
      [] a = "Population estimates" -> "population_estimates"
      [] a = "White alone" -> "white_alone"
      [] a = "White alone non hispanic" -> "white_alone_non_hispanic"
      [] a = "Black or African American alone" -> "black_or_african_american_alone"
      [] a = "American Indian and Alaska Native alone" ->
            "american_indian_and_alaska_native_alone"
      [] a = "Asian alone" -> "asian_alone"
      [] a = "Native Hawaiian and Other Pacific Islander alone" ->
            "native_hawaiian_and_other_pacific_islander_alone"
      [] a = "Two or More Races" -> "two_or_more_races"
      [] a = "Hispanic or Latino" -> "hispanic_or_latino"
      [] a = "High school graduate or higher" -> "high_school_graduate_or_higher"
      [] a = "Bachelor's degree or higher" -> "bachelor's_degree_or_higher"
      [] a = "Persons in poverty" -> "persons_in_poverty"
      [] a = "Other fact" -> "other_fact"
      [] OTHER -> a

\* In[159]: census.columns = census.columns.str.strip().str.lower().str.replace(' ', '_')
In159 ==
    /\ pc = "In[159]"
    /\ census' = [census EXCEPT !.cols =
                    [i \in Idx(census.cols) |->
                        IF census.cols[i].t = "str"
                        THEN [census.cols[i] EXCEPT !.s = <<SnakeCase(census.cols[i].s[1])>>]
                        ELSE census.cols[i]]]
    /\ pc' = "In[162]"
    /\ UNCHANGED <<err, input, gun, results>>

\* every cell of the frame through f
MapCells(df, f(_)) ==
    [df EXCEPT !.data = [r \in 1..NRows(df) |->
                            [c \in 1..NCols(df) |-> f(df.data[r][c])]]]

\* df.replace(to_replace="Z", value='0.0%'): a cell that is the string "Z"
ReplaceZ(df) == MapCells(df, LAMBDA c : IF c = Str1("Z") THEN Percentage(0) ELSE c)

\* In[162]: census = census.replace(to_replace = "Z", value = '0.0%')
In162 ==
    /\ pc = "In[162]"
    /\ census' = ReplaceZ(census)
    /\ pc' = "In[167]"
    /\ UNCHANGED <<err, input, gun, results>>

\* float arithmetic; NaN propagates
Plus(a, b) ==
    IF a.t = "nan" \/ b.t = "nan" THEN NaN ELSE Flt(a.n * b.d + b.n * a.d, a.d * b.d)
Times(a, b) ==
    IF a.t = "nan" \/ b.t = "nan" THEN NaN ELSE Flt(a.n * b.n, a.d * b.d)
Over(a, k) == IF a.t = "nan" THEN NaN ELSE Flt(a.n, a.d * k)

\* x.replace('%', '', regex=True) of one cell
StripPercent(c) == IF c.t = "numstr" THEN [c EXCEPT !.pct = FALSE] ELSE c
\* x.replace(',', '', regex=True) of one cell
StripComma(c) == IF c.t = "numstr" THEN [c EXCEPT !.sep = FALSE] ELSE c

\* float(x) succeeds / int(x) succeeds (astype raises ValueError otherwise)
FloatParses(c) == c.t \in {"float", "int", "nan"} \/ (c.t = "numstr" /\ ~c.pct /\ ~c.sep)
IntParses(c) == c.t \in {"float", "int"} \/ (c.t = "numstr" /\ ~c.pct /\ ~c.sep /\ c.d = 1)
AsFloat(c) == IF c.t = "nan" THEN NaN ELSE Flt(c.n, c.d)
AsInt(c) == IntC(c.n \div c.d)

\* the rows np.r_[0:30, 42:50] and the columns 2: of In[167]
ConvertedRows == (0..29) \cup (42..49)
InConvertedBlock(df, r, c) == (r - 1) \in ConvertedRows /\ c >= 3

\* census.iloc[rows, 2:] = census.iloc[rows, 2:].replace('%','',regex=True).astype('float')/100
PercentConvert(df) ==
    [df EXCEPT !.data =
        [r \in 1..NRows(df) |-> [c \in 1..NCols(df) |->
            IF InConvertedBlock(df, r, c)
            THEN Over(AsFloat(StripPercent(df.data[r][c])), 100)
            ELSE df.data[r][c]]]]

\* In[167]: percentages to decimals
In167 ==
    /\ pc = "In[167]"
    /\ IF \E r \in ConvertedRows : r + 1 > NRows(census) THEN Raise("IndexError")
       ELSE IF \E r \in 1..NRows(census), c \in 1..NCols(census) :
                  InConvertedBlock(census, r, c)
                  /\ ~FloatParses(StripPercent(census.data[r][c]))
       THEN Raise("ValueError")
       ELSE /\ census' = PercentConvert(census)
            /\ pc' = "In[169]"
            /\ UNCHANGED <<err, input, gun, results>>

\* In[169]: census.population_estimates =
\*              census.population_estimates.replace(",",'', regex=True).astype(int)
In169 ==
    /\ pc = "In[169]"
    /\ IF ~HasCol(census, Str1("population_estimates")) THEN Raise("AttributeError")
       ELSE LET pop == Col(census, Str1("population_estimates"))
            IN  IF \E r \in Idx(pop) : ~IntParses(StripComma(pop[r]))
                THEN Raise("ValueError")
                ELSE /\ census' = SetCol(census, Str1("population_estimates"),
                                         [r \in Idx(pop) |-> AsInt(StripComma(pop[r]))])
                     /\ pc' = "In[171]"
                     /\ UNCHANGED <<err, input, gun, results>>

\* pd.to_numeric(x, errors='ignore') of one cell: what does not parse stays
ToNumericIgnore(c) ==
    IF c.t = "numstr" /\ ~c.pct /\ ~c.sep THEN Flt(c.n, c.d) ELSE c

\* pd.to_numeric(x, errors='coerce') of one cell: what does not parse is NaN
ToNumeric(c) ==
    IF c.t \in {"float", "int", "nan"} THEN c
    ELSE IF c.t = "numstr" /\ ~c.pct /\ ~c.sep THEN Flt(c.n, c.d)
    ELSE NaN

\* In[171]: cols = census.columns.drop('state', 'population_estimates')
\* (the second argument of Index.drop is errors, so only 'state' is dropped);
\* census[cols] = census[cols].apply(pd.to_numeric, errors='coerce')
In171 ==
    /\ pc = "In[171]"
    /\ IF ~HasCol(census, Str1("state")) THEN Raise("KeyError")
       ELSE /\ census' = [census EXCEPT !.data =
                    [r \in 1..NRows(census) |-> [c \in 1..NCols(census) |->
                        IF census.cols[c] = Str1("state") THEN census.data[r][c]
                        ELSE ToNumeric(census.data[r][c])]]]
            /\ pc' = "In[172]"
            /\ UNCHANGED <<err, input, gun, results>>

\* In[172]: white_alone_mean = (white_alone + white_alone_non_hispanic) / 2,
\* and the two columns are dropped
In172 ==
    /\ pc = "In[172]"
    /\ LET a == Str1("white_alone")
           b == Str1("white_alone_non_hispanic")
       IN  IF ~HasCol(census, a) \/ ~HasCol(census, b) THEN Raise("KeyError")
           ELSE /\ census' =
                     DropColumns(
                        SetCol(census, Str1("white_alone_mean"),
                               [r \in 1..NRows(census) |->
                                   Over(Plus(Col(census, a)[r], Col(census, b)[r]), 2)]),
                        {a, b})
                /\ pc' = "In[173]"
                /\ UNCHANGED <<err, input, gun, results>>

\* In[173]: the education and poverty columns become the last columns
In173 ==
    /\ pc = "In[173]"
    /\ LET names == <<Str1("high_school_graduate_or_higher"),
                      Str1("bachelor's_degree_or_higher"), Str1("persons_in_poverty")>>
       IN  IF \E k \in Idx(names) : ~HasCol(census, names[k]) THEN Raise("ValueError")
           ELSE /\ census' = MoveLast(census, names)
                /\ pc' = "In[174]"
                /\ UNCHANGED <<err, input, gun, results>>

---------------------------------------------------------------------------
(* Series and groupby                                                      *)

\* ascending order of a finite set of integers
RECURSIVE SortInts(_)
SortInts(S) ==
    IF S = {} THEN <<>>
    ELSE LET m == CHOOSE x \in S : \A y \in S : x <= y
         IN  <<m>> \o SortInts(S \ {m})

\* the concatenation of ss[lo..hi], by halves
RECURSIVE FlattenRange(_, _, _)
FlattenRange(ss, lo, hi) ==
    IF lo > hi THEN <<>>
    ELSE IF lo = hi THEN ss[lo]
    ELSE LET mid == (lo + hi) \div 2
         IN  FlattenRange(ss, lo, mid) \o FlattenRange(ss, mid + 1, hi)
Flatten(ss) == FlattenRange(ss, 1, Len(ss))

\* the cells of a sequence that are not NaN (sum and mean skip NaN)
NotNaN(cells) == SelectSeq(cells, LAMBDA c : c.t # "nan")

\* the sum of cells[lo..hi], by halves
RECURSIVE SumCellRange(_, _, _)
SumCellRange(cells, lo, hi) ==
    IF lo > hi THEN IntC(0)
    ELSE IF lo = hi THEN cells[lo]
    ELSE LET mid == (lo + hi) \div 2
         IN  Plus(SumCellRange(cells, lo, mid), SumCellRange(cells, mid + 1, hi))
SumCells(cells) == SumCellRange(cells, 1, Len(cells))

\* Series.sum() of integers
SumInts(cells) == IntC(SumSeq([k \in Idx(NotNaN(cells)) |-> NotNaN(cells)[k].n]))

\* Series.mean()
Mean(cells) ==
    LET xs == NotNaN(cells)
    IN  IF xs = <<>> THEN NaN
        ELSE IF \A k \in Idx(xs) : xs[k].t = "int"
        THEN Flt(SumInts(xs).n, Len(xs))
        ELSE Over(SumCells(xs), Len(xs))

\* the distinct values of a column of state names, in str order
SortedStates(cells) ==
    SelectSeq(AllNames, LAMBDA a : \E k \in Idx(cells) : cells[k] = Str1(a))

\* the group keys (state, year) of gun in sorted order
StateYearKeys(df) ==
    LET st == Col(df, Str1("state"))
        yr == Col(df, Str1("year"))
        names == SortedStates(st)
    IN  Flatten([k \in Idx(names) |->
            LET ys == SortInts({yr[r].n : r \in {q \in Idx(st) : st[q] = Str1(names[k])}})
            IN  [j \in Idx(ys) |-> <<Str1(names[k]), IntC(ys[j])>>]])

\* round(x) of a float, in place of int(x)
Rounded(c) == (2 * c.n + c.d) \div (2 * c.d)
\* int(x) of a float
Truncated(c) == c.n \div c.d

---------------------------------------------------------------------------
(* Research questions 1 and 2                                              *)

\* In[174]: bg_checks_mean = int(gun['totals'].mean())
In174 ==
    /\ pc = "In[174]"
    /\ IF ~HasCol(gun, Str1("totals")) THEN Raise("KeyError")
       ELSE IF Mean(Col(gun, Str1("totals"))).t = "nan" THEN Raise("ValueError")
       ELSE /\ bg_checks_mean' = Truncated(Mean(Col(gun, Str1("totals"))))
            /\ pc' = "In[175]"
            /\ UNCHANGED <<err, input, gun, census, heights, state_checks, merged,
                           state_checks_mean, percent_poverty, years_sum, checks_99,
                           checks_16, diff, top_five, time_years>>

\* census[column].mean() * bg_checks_mean
Estimate(df, column, bg) == Times(Mean(Col(df, Str1(column))), IntC(bg))

\* the variables of In[175] and the columns they are computed from
Ethnicities ==
    << <<"african", "black_or_african_american_alone">>,
       <<"asian", "asian_alone">>,
       <<"hawaiian", "native_hawaiian_and_other_pacific_islander_alone">>,
       <<"hispanic", "hispanic_or_latino">>,
       <<"native_a", "american_indian_and_alaska_native_alone">>,
       <<"two_plus", "two_or_more_races">>,
       <<"white", "white_alone_mean">> >>
\* the variables of In[177]
Degrees ==
    << <<"diploma", "high_school_graduate_or_higher">>,
       <<"bachelors", "bachelor's_degree_or_higher">> >>

Estimates(df, pairs, bg) ==
    [k \in Idx(pairs) |-> [name |-> pairs[k][1], value |-> Estimate(df, pairs[k][2], bg)]]

\* In[175], In[176]: african .. white, the heights of the first bar chart
In175 ==
    /\ pc = "In[175]"
    /\ IF \E k \in Idx(Ethnicities) : ~HasCol(census, Str1(Ethnicities[k][2]))
       THEN Raise("KeyError")
       ELSE /\ heights' = Estimates(census, Ethnicities, bg_checks_mean)
            /\ pc' = "In[177]"
            /\ UNCHANGED <<err, input, gun, census, bg_checks_mean, state_checks, merged,
                           state_checks_mean, percent_poverty, years_sum, checks_99,
                           checks_16, diff, top_five, time_years>>

\* In[177], In[178]: diploma, bachelors, the heights of the second bar chart
\* (african .. white stay defined)
In177 ==
    /\ pc = "In[177]"
    /\ IF \E k \in Idx(Degrees) : ~HasCol(census, Str1(Degrees[k][2]))
       THEN Raise("KeyError")
       ELSE /\ heights' = heights \o Estimates(census, Degrees, bg_checks_mean)
            /\ pc' = "In[179]"
            /\ UNCHANGED <<err, input, gun, census, bg_checks_mean, state_checks, merged,
                           state_checks_mean, percent_poverty, years_sum, checks_99,
                           checks_16, diff, top_five, time_years>>

---------------------------------------------------------------------------
(* Research question 3                                                     *)

\* gun.loc[:, ['state', 'totals']].groupby('state').mean()
StateChecks(df) ==
    LET st == Col(df, Str1("state"))
        tot == Col(df, Str1("totals"))
        names == SortedStates(st)
    IN  Frame(<<Str1("totals")>>, [k \in Idx(names) |-> Str1(names[k])],
              [k \in Idx(names) |->
                  <<Mean(Take(tot, Positions(Len(st), LAMBDA r : st[r] = Str1(names[k]))))>>])

\* In[179]
In179 ==
    /\ pc = "In[179]"
    /\ IF ~HasCol(gun, Str1("state")) \/ ~HasCol(gun, Str1("totals")) THEN Raise("KeyError")
       ELSE /\ state_checks' = StateChecks(gun)
            /\ pc' = "In[180]"
            /\ UNCHANGED <<err, input, gun, census, bg_checks_mean, heights, merged,
                           state_checks_mean, percent_poverty, years_sum, checks_99,
                           checks_16, diff, top_five, time_years>>

\* pd.merge(left, right, on='state', how='inner'), 'state' being the index of
\* left and a column of right: the pairs of rows with equal keys, in the order
\* of the left keys, under a new RangeIndex
MergeOnState(left, right) ==
    LET key == Col(right, Str1("state"))
        pairs == Flatten([k \in 1..NRows(left) |->
                    LET ms == Positions(NRows(right), LAMBDA r : key[r] = left.index[k])
                    IN  [j \in Idx(ms) |-> <<k, ms[j]>>]])
    IN  Frame(left.cols \o right.cols, RangeIndex(Len(pairs)),
              [k \in Idx(pairs) |-> left.data[pairs[k][1]] \o right.data[pairs[k][2]]])

\* In[180]: merged = pd.merge(state_checks, census, on='state', how='inner')
In180 ==
    /\ pc = "In[180]"
    /\ IF ~HasCol(census, Str1("state")) THEN Raise("KeyError")
       ELSE /\ merged' = MergeOnState(state_checks, census)
            /\ pc' = "In[181]"
            /\ UNCHANGED <<err, input, gun, census, bg_checks_mean, heights, state_checks,
                           state_checks_mean, percent_poverty, years_sum, checks_99,
                           checks_16, diff, top_five, time_years>>

\* a * b of two Series with integer labels: the labels of both, and at each
\* the product of the two values with this label (NaN when one has none)
SeriesTimes(a, b) ==
    LET labels == IF a.index = b.index THEN a.index
                  ELSE LET ns == SortInts({a.index[k].n : k \in Idx(a.index)}
                                          \cup {b.index[k].n : k \in Idx(b.index)})
                       IN  [k \in Idx(ns) |-> IntC(ns[k])]
        at(x, l) == IF FirstPos(x.index, l) = 0 THEN NaN ELSE x.data[FirstPos(x.index, l)]
    IN  Series(labels, [k \in Idx(labels) |-> Times(at(a, labels[k]), at(b, labels[k]))])

\* In[181]: state_checks_mean = census['persons_in_poverty'] * merged['totals'],
\*          percent_poverty = census['persons_in_poverty'] * 100
In181 ==
    /\ pc = "In[181]"
    /\ IF ~HasCol(census, Str1("persons_in_poverty")) \/ ~HasCol(merged, Str1("totals"))
       THEN Raise("KeyError")
       ELSE LET poverty == Series(census.index, Col(census, Str1("persons_in_poverty")))
                totals == Series(merged.index, Col(merged, Str1("totals")))
            IN  /\ state_checks_mean' = SeriesTimes(poverty, totals)
                /\ percent_poverty' =
                      Series(poverty.index,
                             [k \in Idx(poverty.data) |-> Times(poverty.data[k], IntC(100))])
                /\ pc' = "In[184]"
                /\ UNCHANGED <<err, input, gun, census, bg_checks_mean, heights,
                               state_checks, merged, years_sum, checks_99, checks_16,
                               diff, top_five, time_years>>

---------------------------------------------------------------------------
(* Research questions 4 and 5                                              *)

\* gun.groupby(['state', 'year'])['totals'].sum().reset_index()
YearsSum(df) ==
    LET st == Col(df, Str1("state"))
        yr == Col(df, Str1("year"))
        tot == Col(df, Str1("totals"))
        keys == StateYearKeys(df)
    IN  Frame(<<Str1("state"), Str1("year"), Str1("totals")>>, RangeIndex(Len(keys)),
              [k \in Idx(keys) |->
                  keys[k] \o
                  <<SumInts(Take(tot, Positions(Len(st),
                        LAMBDA r : st[r] = keys[k][1] /\ yr[r] = keys[k][2])))>>])

\* In[184]
In184 ==
    /\ pc = "In[184]"
    /\ IF \E a \in {"state", "year", "totals"} : ~HasCol(gun, Str1(a)) THEN Raise("KeyError")
       ELSE /\ years_sum' = YearsSum(gun)
            /\ pc' = "In[185]"
            /\ UNCHANGED <<err, input, gun, census, bg_checks_mean, heights, state_checks,
                           merged, state_checks_mean, percent_poverty, checks_99,
                           checks_16, diff, top_five, time_years>>

\* df.query('year == y')
QueryYear(df, y) ==
    SelectRows(df, Positions(NRows(df), LAMBDA r : Col(df, Str1("year"))[r] = IntC(y)))

\* In[185]: checks_99, checks_16
In185 ==
    /\ pc = "In[185]"
    /\ checks_99' = QueryYear(years_sum, EarlyYear)
    /\ checks_16' = QueryYear(years_sum, LateYear)
    /\ pc' = "In[186]"
    /\ UNCHANGED <<err, input, gun, census, bg_checks_mean, heights, state_checks,
                   merged, state_checks_mean, percent_poverty, years_sum, diff,
                   top_five, time_years>>

\* early.set_index('state') - late.set_index('state'): the operands the wrong way round
DifferenceReversed(late, early) ==
    LET ls == Col(late, Str1("state"))
        es == Col(early, Str1("state"))
        names == SelectSeq(SortedStates(ls \o es),
                    LAMBDA a : FirstPos(ls, Str1(a)) > 0 /\ FirstPos(es, Str1(a)) > 0)
        cell(df, key, a, column) == Col(df, Str1(column))[FirstPos(key, Str1(a))].n
    IN  Frame(<<Str1("year"), Str1("totals")>>, [k \in Idx(names) |-> Str1(names[k])],
              [k \in Idx(names) |->
                  <<IntC(cell(early, es, names[k], "year") - cell(late, ls, names[k], "year")),
                    IntC(cell(early, es, names[k], "totals")
                         - cell(late, ls, names[k], "totals"))>>])

\* (late.set_index('state') - early.set_index('state')).dropna(axis=0): the
\* rows are matched by state; a state in one frame only gives NaN and is dropped
Difference(late, early) ==
    LET ls == Col(late, Str1("state"))
        es == Col(early, Str1("state"))
        names == SelectSeq(SortedStates(ls \o es),
                    LAMBDA a : FirstPos(ls, Str1(a)) > 0 /\ FirstPos(es, Str1(a)) > 0)
        cell(df, key, a, column) == Col(df, Str1(column))[FirstPos(key, Str1(a))].n
    IN  Frame(<<Str1("year"), Str1("totals")>>, [k \in Idx(names) |-> Str1(names[k])],
              [k \in Idx(names) |->
                  <<IntC(cell(late, ls, names[k], "year") - cell(early, es, names[k], "year")),
                    IntC(cell(late, ls, names[k], "totals")
                         - cell(early, es, names[k], "totals"))>>])

\* In[186]: diff
In186 ==
    /\ pc = "In[186]"
    /\ diff' = Difference(checks_16, checks_99)
    /\ pc' = "In[187]"
    /\ UNCHANGED <<err, input, gun, census, bg_checks_mean, heights, state_checks,
                   merged, state_checks_mean, percent_poverty, years_sum, checks_99,
                   checks_16, top_five, time_years>>

\* In[187]: diff = diff.reset_index(drop = False)
In187 ==
    /\ pc = "In[187]"
    /\ diff' = ResetIndex(diff, Str1("state"))
    /\ pc' = "In[188]"
    /\ UNCHANGED <<err, input, gun, census, bg_checks_mean, heights, state_checks,
                   merged, state_checks_mean, percent_poverty, years_sum, checks_99,
                   checks_16, top_five, time_years>>

\* the first k rows of df.sort_values(by=[column], ascending=False), as row
\* positions: the sort is quicksort, which is not stable, so rows with equal
\* values come in any order
RECURSIVE SortedHeads(_, _, _)
SortedHeads(vals, P, k) ==
    IF k = 0 \/ P = {} THEN {<<>>}
    ELSE UNION { { <<p>> \o t : t \in SortedHeads(vals, P \ {p}, k - 1) } :
                 p \in {q \in P : \A j \in P : vals[j].n <= vals[q].n} }

\* In[188]: top_five = diff.sort_values(by=['totals'], ascending=False).head()
In188 ==
    /\ pc = "In[188]"
    /\ \E rs \in SortedHeads(Col(diff, Str1("totals")), 1..NRows(diff), 5) :
          top_five' = SelectRows(diff, rs)
    /\ pc' = "In[189]"
    /\ UNCHANGED <<err, input, gun, census, bg_checks_mean, heights, state_checks,
                   merged, state_checks_mean, percent_poverty, years_sum, checks_99,
                   checks_16, diff, time_years>>

\* In[189]: top_five = top_five.iloc[0:5, [0, 2]]
In189 ==
    /\ pc = "In[189]"
    /\ top_five' = SelectCols(SelectRows(top_five, [k \in 1..NRows(top_five) \cap 1..5 |-> k]),
                              <<1, 3>>)
    /\ pc' = "In[190]"
    /\ UNCHANGED <<err, input, gun, census, bg_checks_mean, heights, state_checks,
                   merged, state_checks_mean, percent_poverty, years_sum, checks_99,
                   checks_16, diff, time_years>>

\* In[190], In[191]: Kentucky = top_five.iloc[0, 1] .. Florida = top_five.iloc[4, 1],
\* the heights of the third bar chart
In190 ==
    /\ pc = "In[190]"
    /\ IF NRows(top_five) < 5 THEN Raise("IndexError")
       ELSE /\ heights' = heights \o
                  [k \in 1..5 |->
                      [name |-> <<"Kentucky", "California", "Illinois", "Indiana",
                                  "Florida">>[k],
                       value |-> top_five.data[k][2]]]
            /\ pc' = "In[192]"
            /\ UNCHANGED <<err, input, gun, census, bg_checks_mean, state_checks, merged,
                           state_checks_mean, percent_poverty, years_sum, checks_99,
                           checks_16, diff, top_five, time_years>>

\* df.iloc[lo:hi, :] (0-based, hi excluded; a slice past the end is cut short)
SliceRows(df, lo, hi) ==
    SelectRows(df, Positions(NRows(df), LAMBDA r : lo <= r - 1 /\ r - 1 < hi))

\* df.groupby('year')['totals'].sum().reset_index()
SumByYear(df) ==
    LET yr == Col(df, Str1("year"))
        tot == Col(df, Str1("totals"))
        ys == SortInts({yr[r].n : r \in Idx(yr)})
    IN  Frame(<<Str1("year"), Str1("totals")>>, RangeIndex(Len(ys)),
              [k \in Idx(ys) |->
                  <<IntC(ys[k]),
                    SumInts(Take(tot, Positions(Len(yr), LAMBDA r : yr[r].n = ys[k])))>>])

\* In[192]: time_years = years_sum.iloc[1:19, :].groupby('year')['totals'].sum().reset_index()
In192 ==
    /\ pc = "In[192]"
    /\ time_years' = SumByYear(SliceRows(years_sum, 1, 19))
    /\ pc' = "done"
    /\ UNCHANGED <<err, input, gun, census, bg_checks_mean, heights, state_checks,
                   merged, state_checks_mean, percent_poverty, years_sum, checks_99,
                   checks_16, diff, top_five>>

Next ==
    \/ In140 \/ In142 \/ In143 \/ In144 \/ In145 \/ In148
    \/ In149 \/ In150 \/ In151 \/ In152 \/ In154 \/ In156 \/ In157 \/ In158 \/ In159
    \/ In162 \/ In167 \/ In169 \/ In171 \/ In172 \/ In173
    \/ In174 \/ In175 \/ In177 \/ In179 \/ In180 \/ In181
    \/ In184 \/ In185 \/ In186 \/ In187 \/ In188 \/ In189 \/ In190 \/ In192

Spec == Init /\ [][Next]_vars

---------------------------------------------------------------------------
(* What is checked                                                         *)

\* the cells that clean and reshape (In[140] .. In[173]) have all run
Cleaned ==
    pc \in {"In[174]", "In[175]", "In[177]", "In[179]", "In[180]", "In[181]", "In[184]",
            "In[185]", "In[186]", "In[187]", "In[188]", "In[189]", "In[190]", "In[192]",
            "done"}

\* the rows of the cleaned gun table, read directly
GunState(r) == gun.data[r][ColPos(gun, Str1("state"))].s[1]
GunYear(r) == gun.data[r][ColPos(gun, Str1("year"))].n
GunTotal(r) == gun.data[r][ColPos(gun, Str1("totals"))].n
GunRowsOf(a, y) == {r \in 1..NRows(gun) : GunState(r) = a /\ GunYear(r) = y}
SumOver(R) == SumSeq([r \in 1..NRows(gun) |-> IF r \in R THEN GunTotal(r) ELSE 0])
GunStates == {GunState(r) : r \in 1..NRows(gun)}

\* C1: every total of the trend is the sum of totals over all rows of the
\* cleaned background-check table (all states) of that year
C1_TrendSumsAllStates ==
    pc = "done" =>
        \A k \in 1..NRows(time_years) :
            time_years.data[k][2].n =
                SumOver({r \in 1..NRows(gun) : GunYear(r) = time_years.data[k][1].n})

\* the census row of a state, and its persons_in_poverty
CensusStatesNow == {census.data[r][ColPos(census, Str1("state"))].s[1] : r \in 1..NRows(census)}
PovertyOf(a) ==
    LET r == CHOOSE q \in 1..NRows(census) :
                census.data[q][ColPos(census, Str1("state"))] = Str1(a)
    IN  census.data[r][ColPos(census, Str1("persons_in_poverty"))]
MeanTotalsOf(a) ==
    LET R == {r \in 1..NRows(gun) : GunState(r) = a} IN Flt(SumOver(R), Cardinality(R))

\* C2: the two poverty series are parallel, with one entry per state present
\* in both cleaned tables and none for any other state, and the entry of a
\* state is (its persons_in_poverty * its mean totals, its persons_in_poverty * 100)
C2_PovertySeriesMatchedByState ==
    pc = "done" =>
        LET common == GunStates \cap CensusStatesNow
        IN  /\ Len(state_checks_mean.data) = Cardinality(common)
            /\ Len(percent_poverty.data) = Cardinality(common)
            /\ state_checks_mean.index = percent_poverty.index
            /\ {<<state_checks_mean.data[k], percent_poverty.data[k]>> :
                    k \in Idx(state_checks_mean.data) \cap Idx(percent_poverty.data)}
               = {<<Times(PovertyOf(a), MeanTotalsOf(a)), Times(PovertyOf(a), IntC(100))>> :
                    a \in common}

\* the states with rows in both reference years, and their growth
InBothYears ==
    LET sc == ColPos(gun, Str1("state"))
        yc == ColPos(gun, Str1("year"))
        has(a, y) == \E r \in 1..NRows(gun) : gun.data[r][yc].n = y /\ gun.data[r][sc].s[1] = a
    IN  {a \in GunStates : has(a, EarlyYear) /\ has(a, LateYear)}
Growth(a) ==
    LET sc == ColPos(gun, Str1("state"))
        yc == ColPos(gun, Str1("year"))
        tc == ColPos(gun, Str1("totals"))
        rows == Positions(NRows(gun), LAMBDA r : gun.data[r][sc].s[1] = a)
    IN  SumSeq([k \in Idx(rows) |->
                   IF gun.data[rows[k]][yc].n = LateYear THEN gun.data[rows[k]][tc].n
                   ELSE IF gun.data[rows[k]][yc].n = EarlyYear THEN 0 - gun.data[rows[k]][tc].n
                   ELSE 0])
TopFiveReady == pc \in {"In[190]", "In[192]", "done"}
TopState(k) == top_five.data[k][1].s[1]
TopGrowth(k) == top_five.data[k][2].n
TopFiveIsTop(less(_, _)) ==
    /\ NRows(top_five) = 5
    /\ \A k \in 1..NRows(top_five) :
          TopState(k) \in InBothYears /\ TopGrowth(k) = Growth(TopState(k))
    /\ \A j, k \in 1..NRows(top_five) : j < k => TopState(j) # TopState(k)
    /\ \A k \in 1..(NRows(top_five) - 1) : less(TopGrowth(k + 1), TopGrowth(k))
    /\ \A a \in InBothYears \ {TopState(k) : k \in 1..NRows(top_five)} :
          LET g == Growth(a) IN \A k \in 1..NRows(top_five) : g <= TopGrowth(k)

\* C3, as stated: the top five are five states of largest growth (2016 sum
\* minus 1999 sum), in strictly descending order of growth
C3_TopFiveStrictlyDescending ==
    TopFiveReady => TopFiveIsTop(LAMBDA x, y : x < y)

\* C3, amended: the top five are five states of largest growth among the
\* states with rows in both years, each with its growth (2016 sum minus 1999
\* sum), in descending order of growth; equal growths may come in any order
C3_TopFiveDescending ==
    TopFiveReady => TopFiveIsTop(LAMBDA x, y : x <= y)

\* a state with early sum 0 and late sum 3,500,000 leads the ranking with 3,500,000
C3_Witness ==
    /\ pc = "done"
    /\ input.g.tweak.state = "Kentucky"
    /\ SumOver(GunRowsOf("Kentucky", EarlyYear)) = 0
    /\ SumOver(GunRowsOf("Kentucky", LateYear)) = 3500000
    /\ top_five.data[1] = <<Str1("Kentucky"), IntC(3500000)>>
    /\ NRows(top_five) = 5

\* the mean of a column of the cleaned Census table over the states that have a value
CensusMean(column) ==
    LET xs == NotNaN(Col(census, Str1(column)))
    IN  IF xs = <<>> THEN NaN ELSE Over(SumCells(xs), Len(xs))
TotalsSum == SumOver(1..NRows(gun))
EstimatesReady == pc \in {"In[179]", "In[180]", "In[181]", "In[184]", "In[185]", "In[186]",
                          "In[187]", "In[188]", "In[189]", "In[190]", "In[192]", "done"}
EstimatedFields == Ethnicities \o Degrees

\* C4, as stated: every estimate is mean(fraction across states) times
\* mean(totals across all state-months)
C4_EstimateIsMeanTimesMean ==
    EstimatesReady =>
        \A k \in Idx(EstimatedFields) :
            /\ heights[k].name = EstimatedFields[k][1]
            /\ heights[k].value =
                  Times(CensusMean(EstimatedFields[k][2]), Flt(TotalsSum, NRows(gun)))

\* C4, amended: every estimate is mean(fraction across states) times the
\* integer part of mean(totals across all state-months)
C4_EstimateIsMeanTimesTruncatedMean ==
    EstimatesReady =>
        \E q \in {bg_checks_mean} :
            /\ q * NRows(gun) <= TotalsSum
            /\ TotalsSum < (q + 1) * NRows(gun)
            /\ \A k \in Idx(EstimatedFields) :
                  /\ heights[k].name = EstimatedFields[k][1]
                  /\ heights[k].value = Times(CensusMean(EstimatedFields[k][2]), IntC(q))

\* a uniform fraction of 0.5 and a mean of totals of 20,000 give 10,000
C4_Witness ==
    /\ pc = "done"
    /\ \A r \in 1..NRows(census) :
          census.data[r][ColPos(census, Str1("black_or_african_american_alone"))] = Flt(1, 2)
    /\ TotalsSum = 20000 * NRows(gun)
    /\ heights[1] = [name |-> "african", value |-> Flt(10000, 1)]

\* the demographic, education and poverty columns of the cleaned Census table
ProportionColumns ==
    {c \in 1..NCols(census) :
        census.cols[c] \notin {Str1("state"), Str1("population_estimates")}}
InUnitInterval(c) == c.t = "float" /\ 0 <= c.n /\ c.n <= c.d

\* C5: after cleaning, every proportion of the Census table is a number in
\* [0, 1] or missing, and no cell holds a '%' or the placeholder 'Z'
C5_ProportionsInUnitInterval ==
    Cleaned =>
        /\ \A r \in 1..NRows(census), c \in ProportionColumns :
              InUnitInterval(census.data[r][c]) \/ census.data[r][c] = NaN
        /\ \A r \in 1..NRows(census), c \in 1..NCols(census) :
              ~HasPercent(census.data[r][c]) /\ ~HasZ(census.data[r][c])

\* a percentage in a row of decimals, or a decimal in a row of percentages, was cleaned
C5_Witness ==
    /\ pc = "done"
    /\ input.c.cell.row = 30
    /\ HasPercent(input.c.cell.value)
    /\ census.data[31][ColPos(census, Str1("persons_in_poverty"))] = NaN
\* the cells that clean the gun table (In[142] .. In[148]) have all run
GunCleaned ==
    pc \notin {"In[140]", "In[142]", "In[143]", "In[144]", "In[145]", "In[148]", "aborted"}

\* the state column of gun_data.csv as read
RawGunStates == LET raw == GunCsv(input.g) IN Col(raw, Str1("state"))
IsUSState(cell) == cell.s[1] \in Range(USStates)
IsGuam(cell) == cell = Str1("Guam")

\* C6: in the cleaned background-check table no row of a territory is left,
\* every row of a state is, in the order of the file, and so, from a file
\* with rows for the 50 states, the distinct values of state are exactly the
\* 50 states
C6_ExactlyTheStates ==
    GunCleaned =>
        LET raw == RawGunStates
            now == Col(gun, Str1("state"))
        IN  /\ GunStates \subseteq Range(USStates)
            /\ now = SelectSeq(raw, IsUSState)
            /\ Range(USStates) \subseteq {raw[r].s[1] : r \in Idx(raw)}
                  => GunStates = Range(USStates)

\* the file had rows of territories, and the 50 states are what is left
C6_Witness ==
    /\ pc = "done"
    /\ SelectSeq(RawGunStates, IsGuam) # <<>>
    /\ GunStates = Range(USStates)
    /\ Cardinality(GunStates) = 50

NoEqualRows(df) == \A q, r \in 1..NRows(df) : q < r => df.data[q] # df.data[r]

\* C7: no two identical rows remain in the cleaned background-check table
\* or in the cleaned Census table, which has one row per state
C7_NoDuplicateRows ==
    /\ GunCleaned => NoEqualRows(gun)
    /\ Cleaned => /\ NoEqualRows(census)
                  /\ \A q, r \in 1..NRows(census) : q < r => census.data[q][1] # census.data[r][1]

\* C8: with a source whose columns are not where the positional selections
\* expect them, the run stops at the selection with a SchemaError and goes
\* no further
C8_SchemaFailFast ==
    /\ input.g.drift # "none" => pc \in {"In[140]", "In[142]", "aborted"}
    /\ input.c.drift # "none" =>
          pc \in {"In[140]", "In[142]", "In[143]", "In[144]", "In[145]", "In[148]", "In[149]",
                  "In[150]", "In[151]", "In[152]", "In[154]", "In[156]", "aborted"}
    /\ (input.g.drift # "none" \/ input.c.drift # "none") /\ pc = "aborted"
          => err = "SchemaError"

\* the column of the cleaned Census table that holds fact f
ColumnOfFact(f) == ColPos(census, Str1(SnakeCase(FactName(f).s[1])))

\* C9: a cell of a proportion column that is no number does not end the run;
\* after cleaning it is missing and every other proportion is a number
C9_UnparseableCellIsMissing ==
    input.c.cell.value = Str1("D") =>
        /\ pc # "aborted"
        /\ Cleaned =>
              \A r \in 1..NRows(census), c \in ProportionColumns :
                 IF r = input.c.cell.row + 1 /\ c = ColumnOfFact(input.c.cell.fact)
                 THEN census.data[r][c] = NaN
                 ELSE InUnitInterval(census.data[r][c])

\* C10: de-duplication, placeholder substitution and
\* percent-to-decimal conversion each leave the table they produced, and the
\* cleaned Census table, unchanged when applied again
C10_CleanerIdempotent ==
    /\ pc = "In[142]" => DropDuplicates(census) = census
    /\ pc = "In[167]" => ReplaceZ(census) = census
    /\ pc = "In[169]" => PercentConvert(census) = census
    /\ Cleaned => /\ DropDuplicates(census) = census
                  /\ ReplaceZ(census) = census
                  /\ PercentConvert(census) = census

\* a placeholder was substituted and converted to 0.0, which a second
\* conversion leaves alone while it changes other cells
C10_Witness ==
    /\ pc = "done"
    /\ input.c.cell.value = Str1("Z")
    /\ input.c.cell.row = 0
    /\ census.data[1][ColumnOfFact(input.c.cell.fact)] = Flt(0, 1)
    /\ PercentConvert(census).data[1][ColumnOfFact(input.c.cell.fact)] = Flt(0, 1)
    /\ PercentConvert(census) # census
\* the years of the cleaned background-check table, and those with rows for
\* every month of the calendar (months 1..MonthsPerYear here)
GunYears == {GunYear(r) : r \in 1..NRows(gun)}
MonthsOf(y) ==
    LET yc == ColPos(gun, Str1("year"))
        mc == ColPos(gun, Str1("month_no"))
    IN  {gun.data[r][mc].n : r \in {q \in 1..NRows(gun) : gun.data[q][yc].n = y}}
CompleteYears == {y \in GunYears : MonthsOf(y) = 1..MonthsPerYear}
TrendYears == {time_years.data[k][1].n : k \in 1..NRows(time_years)}
TrendAscending ==
    \A k \in 1..(NRows(time_years) - 1) :
        time_years.data[k][1].n < time_years.data[k + 1][1].n
GrowthYearsComplete ==
    \A df \in {checks_99, checks_16} :
        \A r \in 1..NRows(df) : df.data[r][ColPos(df, Str1("year"))].n \in CompleteYears

\* C11: the trend is in ascending order of year and its years are exactly
\* the years with complete monthly coverage; the rows the growth is computed
\* from are rows of such years too
C11_TrendHasExactlyCompleteYears ==
    pc = "done" =>
        /\ TrendAscending
        /\ GrowthYearsComplete
        /\ TrendYears = CompleteYears

\* the first state of the grouped table has rows in the partial years 1998
\* and 2017, and 2017 is a year of the trend
C11_Witness ==
    /\ pc = "done"
    /\ input.g.partial = "Alabama"
    /\ LateYear + 1 \in GunYears \ CompleteYears
    /\ LateYear + 1 \in TrendYears
    /\ EarlyYear - 1 \notin TrendYears
====
